---------------------------- MODULE Spec2Model ----------------------------
(***************************************************************************)
(* A model of the data-migration scheduling simulator: scheduler.py (the   *)
(* strategies InOrder, EdgeRanking, FlattenAndColor, Bipartite, Greedy)    *)
(* and the round loop of simulator.py main().                              *)
(*                                                                         *)
(* A networkx MultiGraph is modelled by the sequence of its edges in       *)
(* insertion order; node k of 1..n is the k-th node of the graph.  The     *)
(* adjacency order of a node, and with it the order of graph.edges(), is   *)
(* derived from that sequence as networkx derives it from its dicts.       *)
(***************************************************************************)
EXTENDS Integers, Sequences, FiniteSets, Bags, TLC

\* ----------------------------------------------------------------- bounds
NumDisks == 3
MaxCv == 3
MaxEdges == 3
MaxQueue == 3
MaxRounds == 6
MaxRelaxedCv == 4

Disks == 1..NumDisks

\* ------------------------------------------------------- sequence helpers
RECURSIVE Flatten(_)
Flatten(ss) == IF ss = <<>> THEN <<>> ELSE Head(ss) \o Flatten(Tail(ss))

RemoveAt(s, i) == SubSeq(s, 1, i - 1) \o SubSeq(s, i + 1, Len(s))

\* s grouped by value, the groups in the order of their first element: the
\* order of a dict of dicts that was filled in the order of s
RECURSIVE GroupStable(_)
GroupStable(s) ==
  IF s = <<>> THEN <<>>
  ELSE LET h == Head(s)
           IsH(x) == x = h
           NotH(x) == x # h
       IN  SelectSeq(s, IsH) \o GroupStable(SelectSeq(s, NotH))

\* math.ceil(a / b) for integers a >= 0, b > 0
Ceil(a, b) == (a + b - 1) \div b

Max(S) == CHOOSE x \in S : \A y \in S : y <= x

\* ------------------------------------------------- the networkx MultiGraph
Same(e, u, v) == (e[1] = u /\ e[2] = v) \/ (e[1] = v /\ e[2] = u)
Touches(e, d) == e[1] = d \/ e[2] = d
Other(e, d) == IF e[1] = d THEN e[2] ELSE e[1]
Norm(e) == IF e[1] <= e[2] THEN <<e[1], e[2]>> ELSE <<e[2], e[1]>>

HasEdge(g, u, v) == \E i \in DOMAIN g : Same(g[i], u, v)

\* graph.degree(d): a self-loop counts twice
Degree(g, d) ==
  Cardinality({i \in DOMAIN g : g[i][1] = d}) + Cardinality({i \in DOMAIN g : g[i][2] = d})

\* graph.remove_edge(u, v) without a key removes the edge added last
RemoveEdgeAll(g, u, v) ==
  LET Keep(e) == ~Same(e, u, v) IN SelectSeq(g, Keep)

RemoveEdge(g, u, v) ==
  IF ~HasEdge(g, u, v) THEN g
  ELSE RemoveAt(g, Max({i \in DOMAIN g : Same(g[i], u, v)}))

\* the neighbours of d in the order of adj[d], one entry per parallel edge
Nbrs(g, d) ==
  LET At(e) == Touches(e, d)
      inc == SelectSeq(g, At)
  IN  GroupStable([i \in DOMAIN inc |-> Other(inc[i], d)])

\* graph.edges(d)
EdgesOf(g, d) == LET ns == Nbrs(g, d) IN [i \in DOMAIN ns |-> <<d, ns[i]>>]

\* graph.edges() of a graph of nodes 1..n: node by node, each edge reported at
\* the first of its endpoints in node order
Edges(g, n) ==
  LET Later(e) == e[2] >= e[1]
  IN  Flatten([d \in 1..n |-> SelectSeq(EdgesOf(g, d), Later)])

\* ------------------------------------------------------------------ Disk
\* disk.py is not among the source files: acquire and free follow the
\* specification's Device (acquire reserves one slot, release restores it).
Acquire(av, d) == [av EXCEPT ![d] = @ - 1]
Free(av, d) == [av EXCEPT ![d] = @ + 1]

\* ------------------------------------------------------------- Scheduler
\* Scheduler.max_d over the nodes DOMAIN c of the graph
MaxD(g, c) == Max({Ceil(Degree(g, d), c[d]) : d \in DOMAIN c})

\* mg_split, lines 37-44, for one key e of occ with count k, on a graph of the
\* disks 1..n: g its edges, org the Alias.org of the aliases n+1, n+2, ... made
\* so far
RECURSIVE SplitKeyNoRemove(_, _, _, _, _)
SplitKeyNoRemove(e, k, g, org, n) ==
  IF k <= 1 THEN [graph |-> g, org |-> org]
  ELSE SplitKeyNoRemove(e, k - 1, Append(g, <<n + Len(org) + 1, e[2]>>), Append(org, e[1]), n)

RECURSIVE SplitKey(_, _, _, _, _)
SplitKey(e, k, g, org, n) ==
  IF k <= 1 THEN [graph |-> g, org |-> org]
  ELSE SplitKey(e, k - 1,
                RemoveEdge(Append(g, <<n + Len(org) + 1, e[2]>>), e[1], e[2]),
                Append(org, e[1]), n)

\* mg_split, lines 33-35: occ = Counter(graph.edges()), its keys in the order
\* of their first occurrence, counted on the graph g0 mg_split was called on
RECURSIVE SplitKeys(_, _, _, _, _)
SplitKeys(keys, g0, g, org, n) ==
  IF keys = <<>> THEN [graph |-> g, org |-> org]
  ELSE LET e == Head(keys)
           IsE(x) == x = e
           r == SplitKey(e, Len(SelectSeq(Edges(g0, n), IsE)), g, org, n)
       IN  SplitKeys(Tail(keys), g0, r.graph, r.org, n)

\* ---------------------------------------------------------------- InOrder
InOrderGenEdges(g, n) == Edges(g, n)

\* line 54: the guard of one queue entry
AdmissibleNoAvail(g, av, e) == HasEdge(g, e[1], e[2])
AdmissibleFirstOnly(g, av, e) == av[e[1]] > 0 /\ HasEdge(g, e[1], e[2])
Admissible(g, av, e) == av[e[1]] > 0 /\ av[e[2]] > 0 /\ HasEdge(g, e[1], e[2])

\* lines 57-58, 69: the reservations of an admitted entry
AcquireBoth(av, e) ==
  IF e[1] # e[2] THEN Acquire(Acquire(av, e[1]), e[2]) ELSE Acquire(av, e[1])

\* lines 64-65, 71: the endpoints added to the active pool
ActiveNoLoop(e) == IF e[1] # e[2] THEN <<e[1], e[2]>> ELSE <<>>
ActiveFirstOnly(e) == <<e[1]>>
Active(e) == IF e[1] # e[2] THEN <<e[1], e[2]>> ELSE <<e[1]>>

\* ------------------------------------------------------------ EdgeRanking
DvCv(g, c) == [d \in DOMAIN c |-> Ceil(Degree(g, d), c[d])]

Score(g, c, e) == DvCv(g, c)[e[1]] + DvCv(g, c)[e[2]]

\* sorted(weighted, key=...): ascending by score and stable, so entry i goes
\* behind the entries of a smaller score and the earlier ones of its own
SortDescending(g, c, es) ==
  LET w == DvCv(g, c)
      sc == [i \in DOMAIN es |-> w[es[i][1]] + w[es[i][2]]]
      rank == [i \in DOMAIN es |->
                 1 + Cardinality({j \in DOMAIN es : sc[j] > sc[i] \/ (sc[j] = sc[i] /\ j < i)})]
  IN  [k \in DOMAIN es |-> es[CHOOSE i \in DOMAIN es : rank[i] = k]]

SortByScore(g, c, es) ==
  LET w == DvCv(g, c)
      sc == [i \in DOMAIN es |-> w[es[i][1]] + w[es[i][2]]]
      rank == [i \in DOMAIN es |->
                 1 + Cardinality({j \in DOMAIN es : sc[j] < sc[i] \/ (sc[j] = sc[i] /\ j < i)})]
  IN  [k \in DOMAIN es |-> es[CHOOSE i \in DOMAIN es : rank[i] = k]]

EdgeRankingGenEdges(g, c) == SortByScore(g, c, Edges(g, Len(c)))

\* -------------------------------------------------------- FlattenAndColor
\* The nodes of the alias graph are numbered in the order they enter it; org
\* is the sequence of their Alias.org, ae the sequence of its edges.

\* alias_graph, lines 113-123: the number of aliases made before node d's turn
RECURSIVE AliasOffset(_, _)
AliasOffset(g, d) ==
  IF d = 1 THEN 0 ELSE AliasOffset(g, d - 1) + 1 + Len(Nbrs(g, d - 1))

\* alias_graph: one alias per node d, then a fresh alias per edge of graph.edges(d)
AliasGraphOrg(g, n) == Flatten([d \in 1..n |-> <<d>> \o Nbrs(g, d)])

AliasGraphEdges(g, n) ==
  Flatten([d \in 1..n |->
            [i \in 1..Len(Nbrs(g, d)) |->
               <<AliasOffset(g, d) + 1, AliasOffset(g, d) + 1 + i>>]])

\* split, lines 131-144: new_edges is overwritten by every node with
\* d.org.cv > 1 for which range(1, cv - 1) is not empty, and the last value is
\* added to the alias graph; new_disks stays empty
SplitNewEdges(org, ae, c) ==
  LET cand == {k \in DOMAIN org : c[org[k]] > 1 /\ 1 < c[org[k]] - 1}
  IN  IF cand = {} THEN <<>>
      ELSE LET es == EdgesOf(ae, Max(cand))
           IN  [i \in DOMAIN es |-> <<Len(org) + 1, es[i][2]>>]

SplitOrg(g, c) ==
  LET org == AliasGraphOrg(g, Len(c))
      ae == AliasGraphEdges(g, Len(c))
      cand == {k \in DOMAIN org : c[org[k]] > 1 /\ 1 < c[org[k]] - 1}
  IN  IF SplitNewEdges(org, ae, c) = <<>> THEN org ELSE Append(org, org[Max(cand)])

SplitEdges(g, c) ==
  LET org == AliasGraphOrg(g, Len(c))
      ae == AliasGraphEdges(g, Len(c))
  IN  ae \o SplitNewEdges(org, ae, c)

\* greedy_color, lines 154-158, at one node: the edges es = graph.edges(d), the
\* items acc coloured so far, color the counter of the node
RECURSIVE ColorEdges(_, _, _)
ColorEdges(es, acc, color) ==
  IF es = <<>> THEN acc
  ELSE IF \E i \in DOMAIN acc : acc[i][1] = Head(es)
       THEN ColorEdges(Tail(es), acc, color)
       ELSE ColorEdges(Tail(es), Append(acc, <<Head(es), color>>), color + 1)

\* greedy_color, lines 151-160: the nodes d..n of the graph in node order; the
\* keys of e_colors are the tuples (d, neighbour) as graph.edges(d) reports them
RECURSIVE ColorNodes(_, _, _, _)
ColorNodes(ae, d, n, acc) ==
  IF d > n THEN acc
  ELSE ColorNodes(ae, d + 1, n, ColorEdges(EdgesOf(ae, d), acc, 0))

GreedyColor(ae, n) == ColorNodes(ae, 1, n, <<>>)

\* sorted(self.e_colors, key=lambda item: item[1]): ascending by colour, stable
SortByColor(ec) ==
  LET rank == [i \in DOMAIN ec |->
                 1 + Cardinality({j \in DOMAIN ec :
                                    ec[j][2] < ec[i][2] \/ (ec[j][2] = ec[i][2] /\ j < i)})]
  IN  [k \in DOMAIN ec |-> ec[CHOOSE i \in DOMAIN ec : rank[i] = k]]

\* gen_edges, line 108: every coloured item, by colour, as a pair of disks
FlattenAndColorGenEdges(org, ec) ==
  LET byColor == SortByColor(ec)
  IN  [k \in DOMAIN byColor |-> <<org[byColor[k][1][1]], org[byColor[k][1][2]]>>]

\* ----------------------------------------------------------------- Greedy
\* nx.maximal_matching: the edges of G.edges() taken in order, each kept when
\* neither endpoint is matched yet
RECURSIVE MatchFrom(_, _, _)
MatchFrom(es, used, acc) ==
  IF es = <<>> THEN acc
  ELSE LET e == Head(es)
       IN  IF e[1] \notin used /\ e[2] \notin used /\ e[1] # e[2]
           THEN MatchFrom(Tail(es), used \cup {e[1], e[2]}, Append(acc, e))
           ELSE MatchFrom(Tail(es), used, acc)

MaximalMatching(ae, n) == MatchFrom(Edges(ae, n), {}, <<>>)

\* graph.remove_edges_from(es)
RECURSIVE RemoveEdgesFrom(_, _)
RemoveEdgesFrom(g, es) ==
  IF es = <<>> THEN g
  ELSE RemoveEdgesFrom(RemoveEdge(g, Head(es)[1], Head(es)[2]), Tail(es))

\* line 274: the matched edges with every alias replaced by its disk
Reassociate(org, es) == [i \in DOMAIN es |-> <<org[es[i][1]], org[es[i][2]]>>]

\* the records one round prints for the queue q
RECURSIVE RecordsOf(_, _)
RecordsOf(q, r) ==
  IF q = <<>> THEN EmptyBag
  ELSE SetToBag({<<Head(q)[1], Head(q)[2], r>>}) (+) RecordsOf(Tail(q), r)

\* -------------------------------------------------------------- Bipartite
\* gen_edges, lines 173-176: every odd capacity loses one slot
RelaxCv(c) == [d \in DOMAIN c |-> IF c[d] % 2 = 1 THEN c[d] - 1 ELSE c[d]]

RelaxAvail(c, av) == [d \in DOMAIN c |-> IF c[d] % 2 = 1 THEN av[d] - 1 ELSE av[d]]

\* normalize, lines 236-237: the self-loops added at d, each raising its degree by 2
LoopsAddedToBound(g, c, dp, d) ==
  IF Degree(g, d) < dp * c[d] THEN Ceil(dp * c[d] - Degree(g, d), 2) ELSE 0

LoopsAdded(g, c, dp, d) ==
  IF Degree(g, d) < dp * c[d] - 1 THEN Ceil(dp * c[d] - 1 - Degree(g, d), 2) ELSE 0

WithLoops(g, c, dp) ==
  g \o Flatten([d \in DOMAIN c |-> [i \in 1..LoopsAdded(g, c, dp, d) |-> <<d, d>>]])

\* normalize, lines 240-241: the nodes left one short of delta_prime * cv
Spares(g, c, dp) ==
  LET g1 == WithLoops(g, c, dp)
      IsSpare(d) == Degree(g1, d) = dp * c[d] - 1
  IN  SelectSeq([d \in DOMAIN c |-> d], IsSpare)

\* normalize, lines 244-248: the spares are joined two by two
PairUp(sp) == [i \in 1..(Len(sp) \div 2) |-> <<sp[2 * i - 1], sp[2 * i]>>]

\* normalize, lines 230-248
Normalize(g, c) ==
  LET dp == MaxD(g, c) IN WithLoops(g, c, dp) \o PairUp(Spares(g, c, dp))

\* gen_edges, lines 186-191: every edge whose endpoints are the same disk goes
RemoveLoops(g) == LET NotLoop(e) == e[1] # e[2] IN SelectSeq(g, NotLoop)

\* nx.is_connected on the nodes 1..n
RECURSIVE ReachFrom(_, _, _)
ReachFrom(g, n, S) ==
  LET T == S \cup {v \in 1..n : \E i \in DOMAIN g, d \in S : Same(g[i], d, v)}
  IN  IF T = S THEN S ELSE ReachFrom(g, n, T)

\* nx.is_eulerian, which nx.eulerian_circuit tests when its first edge is asked for
IsEulerian(g, n) ==
  /\ \A d \in 1..n : Degree(g, d) % 2 = 0
  /\ ReachFrom(g, n, {1}) = 1..n

\* nx.eulerian_circuit: the closed walks from the first node that use every
\* edge once; which of them networkx returns is left open
RECURSIVE EulerWalks(_, _)
EulerWalks(g, cur) ==
  IF g = <<>> THEN {<<>>}
  ELSE UNION {{<<<<cur, v>>>> \o w : w \in EulerWalks(RemoveEdge(g, cur, v), v)} :
                v \in {Other(g[i], cur) : i \in {j \in DOMAIN g : Touches(g[j], cur)}}}

EulerianCircuits(g) == EulerWalks(g, 1)

RECURSIVE Dedupe(_)
Dedupe(s) ==
  IF s = <<>> THEN <<>>
  ELSE LET h == Head(s)
           NotH(x) == x # h
       IN  <<h>> \o Dedupe(SelectSeq(Tail(s), NotH))

\* Scheduler.mg_split, lines 31-44
MgSplit(g, n) == SplitKeys(Dedupe(Edges(g, n)), g, g, <<>>, n)

RECURSIVE GroupBySource(_)
GroupBySource(s) ==
  IF s = <<>> THEN <<>>
  ELSE LET h == Head(s)
           FromH(e) == e[1] = h[1]
           NotFromH(e) == e[1] # h[1]
       IN  SelectSeq(s, FromH) \o GroupBySource(SelectSeq(s, NotFromH))

\* gen_edges, lines 194-203: the arcs out(u) -> in(v) of the DiGraph self.b, one
\* per ordered pair however often the circuit runs from u to v, in the order
\* the flow dict lists them (by source node, then as added)
FlowNetwork(ec) == Dedupe(GroupBySource(ec))

\* the entries of s at the indices I, in order
PickAt(s, I) ==
  LET InI(i) == i \in I
      idx == SelectSeq([i \in DOMAIN s |-> i], InI)
  IN  [k \in DOMAIN idx |-> s[idx[k]]]

\* nx.maximum_flow, lines 209-219: s -> out(d) and in(d) -> t carry at most
\* ceil(cv/2), every arc at most 1; a maximum flow is a largest set of arcs
\* within those capacities, and which one networkx returns is left open
FlowFeasible(arcs, c, F) ==
  \A d \in DOMAIN c :
     /\ Cardinality({i \in F : arcs[i][1] = d}) <= Ceil(c[d], 2)
     /\ Cardinality({i \in F : arcs[i][2] = d}) <= Ceil(c[d], 2)

MaxFlows(arcs, c) ==
  LET feas == {F \in SUBSET (DOMAIN arcs) : FlowFeasible(arcs, c, F)}
      best == Max({Cardinality(F) : F \in feas})
  IN  {F \in feas : Cardinality(F) = best}

\* line 228: the flow-carrying arcs between two different disks
CullLoops(flow) == LET NotLoop(e) == e[1] # e[2] IN SelectSeq(flow, NotLoop)

\* ------------------------------------------------------------------ state
VARIABLES
  sched,       \* the strategy main() constructed
  cv,          \* Disk.cv of the nodes 1..Len(cv) of the graph
  cv0,         \* Disk.cv as main() assigned it (never read by the program)
  avail,       \* Disk.avail
  graph,       \* g, the demand MultiGraph
  demand,      \* the demand graph main() started from (never written)
  d_prime,     \* main: d_prime
  rounds,      \* main: rounds
  pc,          \* where main() or do_work stands
  queue,       \* q, the list the last gen_edges returned
  qpos,        \* do_work: the queue entries already processed
  working,     \* do_work: working
  records,     \* the transfer records printed so far, <<e0, e1, round>>
  availStart,  \* avail when the current commit pass began (never read by the program)
  acquireOk,   \* no acquire() was called on a disk with avail <= 0
  a_org,       \* Alias.org of the alias nodes made so far (the nodes of self.a_graph)
  a_graph,     \* FlattenAndColor/Greedy: the edges of self.a_graph
  e_colors,    \* FlattenAndColor: self.e_colors, the items <<edge, colour>> in dict order
  normalized,  \* Bipartite: self.normalized
  b            \* Bipartite: the arcs out(u) -> in(v) of self.b

strat == <<a_org, a_graph, e_colors, normalized, b>>

vars == <<sched, cv, cv0, avail, graph, demand, d_prime, rounds, pc, queue, qpos,
          working, records, availStart, acquireOk, a_org, a_graph, e_colors, normalized, b>>

\* the edge sequences of at most m edges on the nodes 1..n
PairSeqs(n, m) ==
  UNION {[1..k -> {e \in (1..n) \X (1..n) : e[1] <= e[2]}] : k \in 1..m}

\* one edge sequence for every multiset of at most m edges, the empty one included
SortedPairSeqs(n, m) ==
  {g \in PairSeqs(n, m) \cup {<<>>} :
     \A i \in 1..(Len(g) - 1) :
        g[i][1] < g[i + 1][1] \/ (g[i][1] = g[i + 1][1] /\ g[i][2] <= g[i + 1][2])}

\* before main() has built its scheduler and its graph
Init ==
  /\ sched = "none"
  /\ cv = <<>>
  /\ cv0 = cv
  /\ avail = cv
  /\ graph = <<>>
  /\ demand = <<>>
  /\ d_prime = 0
  /\ rounds = 1
  /\ pc = "start"
  /\ queue = <<>>
  /\ qpos = 0
  /\ working = <<>>
  /\ records = EmptyBag
  /\ availStart = avail
  /\ acquireOk = TRUE
  /\ a_org = <<>>
  /\ a_graph = <<>>
  /\ e_colors = <<>>
  /\ normalized = FALSE
  /\ b = <<>>

\* main, lines 43-115: the scheduler s is constructed, the graph is generated
\* or read (its disks with full availability), d_prime is computed
Main(s) ==
  /\ pc = "start"
  /\ sched' = s
  /\ \E n \in Disks :
       /\ cv' \in [1..n -> 1..MaxCv]
       /\ graph' \in PairSeqs(n, MaxEdges)
  /\ cv0' = cv'
  /\ avail' = cv'
  /\ demand' = graph'
  /\ d_prime' = MaxD(graph', cv')
  /\ rounds' = 1
  /\ pc' = "select"
  /\ availStart' = avail'
  /\ UNCHANGED <<queue, qpos, working, records, acquireOk, strat>>

\* ---------------------------------------------------------------- actions
\* main, lines 117-125 with InOrder.gen_edges
GenEdgesInOrder ==
  /\ pc = "select"
  /\ sched = "inorder"
  /\ queue' = InOrderGenEdges(graph, Len(cv))
  /\ qpos' = 0
  /\ working' = <<>>
  /\ availStart' = avail
  /\ pc' = "commit"
  /\ UNCHANGED <<sched, cv, avail, graph, demand, cv0, d_prime, rounds, records, acquireOk, strat>>

\* main, lines 117-125 with EdgeRanking.gen_edges
GenEdgesEdgeRanking ==
  /\ pc = "select"
  /\ sched = "edge_ranking"
  /\ queue' = EdgeRankingGenEdges(graph, cv)
  /\ qpos' = 0
  /\ working' = <<>>
  /\ availStart' = avail
  /\ pc' = "commit"
  /\ UNCHANGED <<sched, cv, avail, graph, demand, cv0, d_prime, rounds, records, acquireOk, strat>>

\* InOrder.do_work, lines 54-72: the body of the loop, for the queue entry e
DoWorkEntry(e) ==
  IF Admissible(graph, avail, e)
  THEN /\ avail' = AcquireBoth(avail, e)
       /\ acquireOk' = (/\ acquireOk
                        /\ avail[e[1]] > 0
                        /\ (e[1] # e[2] => Acquire(avail, e[1])[e[2]] > 0))
       /\ graph' = RemoveEdge(graph, e[1], e[2])
       /\ working' = working \o Active(e)
       /\ records' = records (+) SetToBag({<<e[1], e[2], rounds>>})
  ELSE UNCHANGED <<avail, acquireOk, graph, working, records>>

\* InOrder.do_work, lines 53-72: one iteration of the loop over the queue
DoWorkStep ==
  /\ pc = "commit"
  /\ qpos < Len(queue)
  /\ DoWorkEntry(queue[qpos + 1])
  /\ qpos' = qpos + 1
  /\ UNCHANGED <<sched, cv, demand, cv0, d_prime, rounds, pc, queue, availStart, strat>>

\* InOrder.do_work, line 53: the queue is exhausted
DoWorkDone ==
  /\ pc = "commit"
  /\ qpos = Len(queue)
  /\ pc' = "free"
  /\ UNCHANGED <<sched, cv, avail, graph, demand, cv0, d_prime, rounds, queue, qpos,
                 working, records, availStart, acquireOk, strat>>

\* InOrder.do_work, lines 75-76: one iteration of the release loop
FreeStep ==
  /\ pc = "free"
  /\ working # <<>>
  /\ avail' = Free(avail, Head(working))
  /\ working' = Tail(working)
  /\ UNCHANGED <<sched, cv, graph, demand, cv0, d_prime, rounds, pc, queue, qpos,
                 records, availStart, acquireOk, strat>>

\* main, lines 127 and 117: do_work returned; count the round, test the loop
EndRound ==
  /\ pc = "free"
  /\ working = <<>>
  /\ rounds < MaxRounds
  /\ rounds' = rounds + 1
  /\ pc' = IF graph = <<>> THEN "done" ELSE "select"
  /\ UNCHANGED <<sched, cv, avail, graph, demand, cv0, d_prime, queue, qpos, working,
                 records, availStart, acquireOk, strat>>

\* ------------------------------------------- InOrder and EdgeRanking runs
MainInOrder == Main("inorder")

MainEdgeRanking == Main("edge_ranking")

NextInOrder ==
  \/ MainInOrder
  \/ MainEdgeRanking
  \/ GenEdgesInOrder
  \/ GenEdgesEdgeRanking
  \/ DoWorkStep
  \/ DoWorkDone
  \/ FreeStep
  \/ EndRound

SpecInOrder == Init /\ [][NextInOrder]_vars

\* ------------------------------------------------------------ Greedy runs
MainGreedy == Main("greedy")

\* main, lines 117-125 with Greedy.gen_edges.  The matching is a Python set:
\* the order of the queue is the order the matching was found in, and no step
\* of Greedy depends on it.
GenEdgesGreedy ==
  /\ pc = "select"
  /\ sched = "greedy"
  /\ LET org == IF a_org = <<>> THEN SplitOrg(graph, cv) ELSE a_org
         ae == IF a_org = <<>> THEN SplitEdges(graph, cv) ELSE a_graph
         m == MaximalMatching(ae, Len(org))
     IN  /\ a_org' = org
         /\ a_graph' = RemoveEdgesFrom(ae, m)
         /\ queue' = Reassociate(org, m)
  /\ qpos' = 0
  /\ working' = <<>>
  /\ availStart' = avail
  /\ pc' = "commit"
  /\ UNCHANGED <<sched, cv, avail, graph, demand, cv0, d_prime, rounds, records, acquireOk,
                 e_colors, normalized, b>>

\* Greedy.do_work, lines 255-260
DoWorkGreedy ==
  /\ pc = "commit"
  /\ sched = "greedy"
  /\ IF queue = <<>>
     THEN graph' = <<>> /\ UNCHANGED records
     ELSE records' = records (+) RecordsOf(queue, rounds) /\ UNCHANGED graph
  /\ qpos' = Len(queue)
  /\ pc' = "free"
  /\ UNCHANGED <<sched, cv, avail, demand, cv0, d_prime, rounds, queue, working,
                 availStart, acquireOk, strat>>

NextGreedy ==
  \/ MainGreedy
  \/ GenEdgesGreedy
  \/ DoWorkGreedy
  \/ EndRound

SpecGreedy == Init /\ [][NextGreedy]_vars

\* --------------------------------------------------- FlattenAndColor runs
MainFlattenAndColor == Main("flatten_and_color")

\* main, lines 117-125 with FlattenAndColor.gen_edges
GenEdgesFlattenAndColor ==
  /\ pc = "select"
  /\ sched = "flatten_and_color"
  /\ LET fresh == a_org = <<>>
         org == IF fresh THEN SplitOrg(graph, cv) ELSE a_org
         ae == IF fresh THEN SplitEdges(graph, cv) ELSE a_graph
         ec == IF fresh THEN GreedyColor(ae, Len(org)) ELSE e_colors
     IN  /\ a_org' = org
         /\ a_graph' = ae
         /\ e_colors' = ec
         /\ queue' = FlattenAndColorGenEdges(org, ec)
  /\ qpos' = 0
  /\ working' = <<>>
  /\ availStart' = avail
  /\ pc' = "commit"
  /\ UNCHANGED <<sched, cv, avail, graph, demand, cv0, d_prime, rounds, records, acquireOk,
                 normalized, b>>

NextFlattenAndColor ==
  \/ MainFlattenAndColor
  \/ GenEdgesFlattenAndColor
  \/ DoWorkStep
  \/ DoWorkDone
  \/ FreeStep
  \/ EndRound

SpecFlattenAndColor == Init /\ [][NextFlattenAndColor]_vars

\* --------------------------------------------------------- Bipartite runs
MainBipartite == Main("bipartite")

\* gen_edges, lines 218-228, on the flow network arcs
FlowRound(arcs, c) ==
  \E F \in MaxFlows(arcs, c) :
     /\ b' = PickAt(arcs, (DOMAIN arcs) \ F)
     /\ queue' = CullLoops(PickAt(arcs, F))
     /\ pc' = "commit"

\* main, lines 117-125 with Bipartite.gen_edges.  An exception (the division
\* by a capacity of 0 in max_d, the pairing of an odd number of spares, a
\* graph without Eulerian circuit) ends the program where it is raised.
GenEdgesBipartite ==
  /\ pc = "select"
  /\ sched = "bipartite"
  /\ IF normalized
     THEN /\ FlowRound(b, cv)
          /\ UNCHANGED <<cv, avail, graph, normalized>>
     ELSE LET c1 == RelaxCv(cv)
              g1 == Normalize(graph, c1)
              g2 == RemoveLoops(g1)
          IN  /\ cv' = c1
              /\ avail' = RelaxAvail(cv, avail)
              /\ IF \E d \in DOMAIN c1 : c1[d] = 0
                 THEN /\ pc' = "error"
                      /\ UNCHANGED <<graph, normalized, b, queue>>
                 ELSE IF Len(Spares(graph, c1, MaxD(graph, c1))) % 2 = 1
                 THEN /\ graph' = g1
                      /\ pc' = "error"
                      /\ UNCHANGED <<normalized, b, queue>>
                 ELSE IF ~IsEulerian(g2, Len(c1))
                 THEN /\ graph' = g2
                      /\ normalized' = TRUE
                      /\ pc' = "error"
                      /\ UNCHANGED <<b, queue>>
                 ELSE /\ graph' = g2
                      /\ normalized' = TRUE
                      /\ \E ec \in EulerianCircuits(g2) : FlowRound(FlowNetwork(ec), c1)
  /\ qpos' = 0
  /\ working' = <<>>
  /\ availStart' = avail'
  /\ UNCHANGED <<sched, demand, cv0, d_prime, rounds, records, acquireOk, a_org, a_graph,
                 e_colors>>

NextBipartite ==
  \/ MainBipartite
  \/ GenEdgesBipartite
  \/ DoWorkStep
  \/ DoWorkDone
  \/ FreeStep
  \/ EndRound

SpecBipartite == Init /\ [][NextBipartite]_vars

\* ------------------------------------------------------- normalize alone
\* Bipartite.normalize as gen_edges calls it at line 179: on any graph with
\* edges (normalize reads the degrees only, so one order of the edges stands
\* for all), the capacities relaxed by lines 173-176 (capacity 1 stands for
\* the odd ones that relax to 0, the even ones stay)
InitNormalize ==
  /\ sched = "bipartite"
  /\ \E n \in Disks :
       /\ cv0 \in [1..n -> {c \in 1..MaxRelaxedCv : c = 1 \/ c % 2 = 0}]
       /\ graph \in SortedPairSeqs(n, MaxEdges) \ {<<>>}
  /\ cv = RelaxCv(cv0)
  /\ avail = RelaxAvail(cv0, cv0)
  /\ demand = graph
  /\ d_prime = MaxD(graph, cv0)
  /\ rounds = 1
  /\ pc = "normalize"
  /\ queue = <<>>
  /\ qpos = 0
  /\ working = <<>>
  /\ records = EmptyBag
  /\ availStart = avail
  /\ acquireOk = TRUE
  /\ a_org = <<>>
  /\ a_graph = <<>>
  /\ e_colors = <<>>
  /\ normalized = FALSE
  /\ b = <<>>

\* normalize, lines 230-248; max_d divides by a capacity of 0, and the last of
\* an odd number of spares has no partner (new_edge[1])
NormalizeCall ==
  /\ pc = "normalize"
  /\ IF \E d \in DOMAIN cv : cv[d] = 0
     THEN pc' = "error" /\ UNCHANGED graph
     ELSE /\ graph' = Normalize(graph, cv)
          /\ pc' = IF Len(Spares(graph, cv, MaxD(graph, cv))) % 2 = 1
                   THEN "error" ELSE "normalized"
  /\ UNCHANGED <<sched, cv, avail, demand, cv0, d_prime, rounds, queue, qpos, working,
                 records, availStart, acquireOk, strat>>

NextNormalize == NormalizeCall

SpecNormalize == InitNormalize /\ [][NextNormalize]_vars

\* -------------------------------------------------------- mg_split alone
\* Scheduler.mg_split on any graph of disks; it reads no capacity
InitMgSplit ==
  /\ sched = "bipartite"
  /\ \E n \in Disks :
       /\ cv = [d \in 1..n |-> 1]
       /\ graph \in PairSeqs(n, MaxEdges)
  /\ cv0 = cv
  /\ avail = cv
  /\ demand = graph
  /\ d_prime = MaxD(graph, cv)
  /\ rounds = 1
  /\ pc = "mg_split"
  /\ queue = <<>>
  /\ qpos = 0
  /\ working = <<>>
  /\ records = EmptyBag
  /\ availStart = avail
  /\ acquireOk = TRUE
  /\ a_org = <<>>
  /\ a_graph = <<>>
  /\ e_colors = <<>>
  /\ normalized = FALSE
  /\ b = <<>>

\* mg_split, lines 31-44: the graph is rewritten in place, the aliases made are
\* its nodes Len(cv) + 1, Len(cv) + 2, ...
MgSplitCall ==
  /\ pc = "mg_split"
  /\ graph' = MgSplit(graph, Len(cv)).graph
  /\ a_org' = MgSplit(graph, Len(cv)).org
  /\ pc' = "split"
  /\ UNCHANGED <<sched, cv, avail, demand, cv0, d_prime, rounds, queue, qpos, working,
                 records, availStart, acquireOk, a_graph, e_colors, normalized, b>>

NextMgSplit == MgSplitCall

SpecMgSplit == InitMgSplit /\ [][NextMgSplit]_vars

\* ------------------------------------------------- one commit pass alone
\* InOrder.do_work on any graph, any availabilities within the capacities and
\* any queue: the entries of the queue are drawn one by one.
InitPass ==
  /\ sched = "inorder"
  /\ \E n \in Disks :
       /\ cv \in [1..n -> 1..MaxCv]
       /\ avail \in {a \in [1..n -> 0..MaxCv] : \A d \in 1..n : a[d] <= cv[d]}
       /\ graph \in SortedPairSeqs(n, MaxEdges)
  /\ cv0 = cv
  /\ demand = graph
  /\ d_prime = MaxD(graph, cv)
  /\ rounds = 1
  /\ pc = "commit"
  /\ queue = <<>>
  /\ qpos = 0
  /\ working = <<>>
  /\ records = EmptyBag
  /\ availStart = avail
  /\ acquireOk = TRUE
  /\ a_org = <<>>
  /\ a_graph = <<>>
  /\ e_colors = <<>>
  /\ normalized = FALSE
  /\ b = <<>>

\* lines 53-72 for an arbitrary next entry of the queue
PassEntry ==
  /\ pc = "commit"
  /\ qpos < MaxQueue
  /\ \E e \in (DOMAIN cv) \X (DOMAIN cv) : DoWorkEntry(e)
  /\ qpos' = qpos + 1
  /\ UNCHANGED <<sched, cv, demand, cv0, d_prime, rounds, pc, queue, availStart, strat>>

\* line 53: the queue ends here
PassQueueEnd ==
  /\ pc = "commit"
  /\ pc' = "free"
  /\ UNCHANGED <<sched, cv, avail, graph, demand, cv0, d_prime, rounds, queue, qpos,
                 working, records, availStart, acquireOk, strat>>

\* do_work returns
PassReturn ==
  /\ pc = "free"
  /\ working = <<>>
  /\ pc' = "done"
  /\ UNCHANGED <<sched, cv, avail, graph, demand, cv0, d_prime, rounds, queue, qpos,
                 working, records, availStart, acquireOk, strat>>

NextPass == PassEntry \/ PassQueueEnd \/ FreeStep \/ PassReturn

SpecPass == InitPass /\ [][NextPass]_vars

\* ------------------------------------------------------ claims: helpers
Pairs == {e \in Disks \X Disks : e[1] <= e[2]}

RECURSIVE BagSum(_, _)
BagSum(S, B) ==
  IF S = {} THEN 0
  ELSE LET x == CHOOSE y \in S : TRUE IN CopiesIn(x, B) + BagSum(S \ {x}, B)

\* the number of transfer records printed for the pair p
Emitted(p) == BagSum({r \in BagToSet(records) : Norm(<<r[1], r[2]>>) = p}, records)

\* the number of edges of g between the pair p
Mult(g, p) == Cardinality({i \in DOMAIN g : Norm(g[i]) = p})

RoundsRun == rounds - 1

\* ------------------------------------------------------------------ C1
\* C1: with InOrder's commit and InOrder's or EdgeRanking's selection, the
\* records printed so far together with the edges still in the graph are at
\* every moment exactly the original demand (an edge leaves the graph in the
\* step that prints its record, once), and when the loop has ended the graph
\* is empty and the records are the original demand.
C1_EdgeConservation ==
  /\ \A p \in Pairs : Emitted(p) + Mult(graph, p) = Mult(demand, p)
  /\ pc = "done" => graph = <<>> /\ \A p \in Pairs : Emitted(p) = Mult(demand, p)

C1_Witness ==
  /\ pc = "done"
  /\ RoundsRun >= 2
  /\ \E p \in Pairs : Emitted(p) >= 2
  /\ \E p \in Pairs : p[1] = p[2] /\ Emitted(p) >= 1

\* ------------------------------------------------------------------ C2
\* C2: in a commit pass that starts with every availability within
\* [0, capacity], whatever the queue, every availability stays within
\* [0, capacity] at every point, acquire is only called on a disk whose
\* availability is positive, and when do_work returns every availability is
\* what it was when the pass began.
C2_AvailabilityInvariant ==
  /\ \A d \in DOMAIN cv : 0 <= avail[d] /\ avail[d] <= cv[d]
  /\ acquireOk
  /\ pc = "done" => avail = availStart

C2_Witness ==
  /\ pc = "done"
  /\ qpos = MaxQueue
  /\ Len(graph) = Len(demand) - 2
  /\ \E d \in Disks : Emitted(<<d, d>>) = 1

\* ------------------------------------------------------------------ C4
\* C4: with InOrder's commit and every disk starting with availability =
\* capacity >= 1, every commit pass removes at least one edge of the graph it
\* was selected from (the queue of a pass lists every edge of that graph), so
\* the number of edges is a variant of the loop: the rounds run never exceed
\* the number of edges of the original demand, the round bound of the model is
\* never what stops the loop, and the loop is left only with an empty graph.
C4_Termination ==
  /\ pc = "free" => Len(graph) < Len(queue)
  /\ RoundsRun <= Len(demand)
  /\ (pc = "free" /\ working = <<>>) => rounds < MaxRounds
  /\ pc = "done" => graph = <<>>

C4_Witness == pc = "done" /\ RoundsRun = MaxEdges /\ Len(demand) = MaxEdges

\* ------------------------------------------------------------------ C5
\* C5: the number of rounds an InOrder run needs is never less than max_d of
\* the initial demand graph.
C5_LowerBound == (pc = "done" /\ sched = "inorder") => RoundsRun >= d_prime

\* the same bound for demand graphs without self-pair edges
C5_LowerBoundNoSelfPairs ==
  (pc = "done" /\ sched = "inorder" /\ \A i \in DOMAIN demand : demand[i][1] # demand[i][2])
     => RoundsRun >= d_prime

\* ------------------------------------------------------------------ C10
\* C10: the queue EdgeRanking.gen_edges returns holds the edges of the graph,
\* each as often as the graph does, by non-decreasing score w(u) + w(v), w(d)
\* being the least k with k * capacity(d) >= degree(d) on the graph selected from.
C10_W(d) == CHOOSE k \in 0..(2 * Len(graph)) :
              k * cv[d] >= Degree(graph, d) /\ (k = 0 \/ (k - 1) * cv[d] < Degree(graph, d))

RoundLoad(d, r) ==
  BagSum({x \in BagToSet(records) : x[3] = r /\ (x[1] = d \/ x[2] = d)}, records)

\* C3: in every round of a Greedy run, no disk is an endpoint of more emitted
\* transfers than its availability was when the round began.
C3_GreedyRoundCapacity ==
  sched = "greedy" => \A d \in DOMAIN cv : RoundLoad(d, rounds) <= availStart[d]

\* ------------------------------------------------------------------ C9
\* C9: over a Greedy run no pair of disks gets more transfer records than the
\* original demand graph has edges between them.
C9_GreedyNoEdgeTwice ==
  sched = "greedy" => \A p \in Pairs : Emitted(p) <= Mult(demand, p)

\* ------------------------------------------------------------------ C6
\* C6: a Bipartite run never runs more rounds than d_prime, the max_d main
\* computed on the original graph with the original capacities.
C6_BipartiteRoundBound == (sched = "bipartite" /\ pc # "error") => RoundsRun <= d_prime

\* ------------------------------------------------------------------ C7
\* C7: in a Bipartite run no pair of disks gets more transfer records than
\* the original demand graph has edges between them.
C7_BipartiteOnlyDemand ==
  sched = "bipartite" => \A p \in Pairs : Emitted(p) <= Mult(demand, p)

\* ------------------------------------------------------------------ C8
\* C8: a call of gen_edges removes no edge of the demand graph: between any
\* pair of disks the graph has as many edges after the call as before.
C8_SelectFrame ==
  [][pc = "select" => \A p \in Pairs : Mult(graph', p) >= Mult(graph, p)]_vars

\* ------------------------------------------------------------------ C11
\* C11 as stated: within one commit pass of InOrder.do_work no disk, whatever
\* its capacity, is an endpoint of more than one accepted edge.
C11_OneReservationPerRound ==
  sched = "inorder" => \A d \in DOMAIN cv : RoundLoad(d, rounds) <= 1

\* C11 amended: within one commit pass no disk is an endpoint of more accepted
\* edges than its availability was when the pass began (so at most one for a
\* disk that began with one free slot); while the queue is read, the accepted
\* edges at a disk are exactly the slots it has lost.
C11_ReservationsWithinAvailability ==
  sched = "inorder" =>
    \A d \in DOMAIN cv :
       /\ RoundLoad(d, rounds) <= availStart[d]
       /\ availStart[d] <= 1 => RoundLoad(d, rounds) <= 1
       /\ pc = "commit" => RoundLoad(d, rounds) = availStart[d] - avail[d]

C11_Witness ==
  /\ pc = "done"
  /\ qpos = MaxQueue
  /\ \E d \in DOMAIN cv :
       availStart[d] = 2 /\ RoundLoad(d, rounds) = 2 /\ Degree(graph, d) >= 1
  /\ \E d \in DOMAIN cv :
       availStart[d] = 1 /\ RoundLoad(d, rounds) = 1 /\ Degree(graph, d) >= 1

\* ------------------------------------------------------------------ C12
\* the run started with three disks of capacity 2 and the triangle as demand
C12_Scenario ==
  /\ sched = "inorder"
  /\ cv0 = <<2, 2, 2>>
  /\ Len(demand) = 3
  /\ \A p \in {<<1, 2>>, <<1, 3>>, <<2, 3>>} : Mult(demand, p) = 1

\* C12: with disks A, B, C of capacity 2 and the demand {A-B, B-C, A-C},
\* InOrder commits the three edges in round 1, the run takes exactly one
\* round, and after the round every disk has availability 2 again.
C12_TriangleOneRound ==
  C12_Scenario =>
    /\ rounds <= 2
    /\ pc \in {"free", "done"} =>
         /\ graph = <<>>
         /\ \A p \in {<<1, 2>>, <<1, 3>>, <<2, 3>>} : Emitted(p) = 1
         /\ \A r \in BagToSet(records) : r[3] = 1
    /\ pc = "done" => RoundsRun = 1 /\ avail = <<2, 2, 2>>

\* the queue [B-A, B-C, A-C] with B the first node of the graph
C12_Witness ==
  /\ C12_Scenario
  /\ pc = "done"
  /\ queue = <<<<1, 2>>, <<1, 3>>, <<2, 3>>>>

\* ------------------------------------------------------------------ C13
\* the run started with disks A, B of capacity 1 and only A-B edges as demand
C13_Scenario ==
  /\ sched = "inorder"
  /\ cv0 = <<1, 1>>
  /\ \A i \in DOMAIN demand : demand[i] = <<1, 2>>

\* C13: with two disks of capacity 1 and k >= 1 parallel edges A-B, every
\* InOrder round commits exactly one A-B edge, the other queued copies being
\* deferred, and the run takes exactly k rounds.
C13_ParallelEdgesKRounds ==
  C13_Scenario =>
    /\ \A r \in 1..RoundsRun : RoundLoad(1, r) = 1 /\ RoundLoad(2, r) = 1
    /\ pc \in {"free"} => RoundLoad(1, rounds) = 1 /\ Len(graph) = Len(demand) - rounds
    /\ pc = "select" => Len(graph) = Len(demand) - RoundsRun
    /\ pc = "commit" => Len(queue) = Len(demand) - RoundsRun
    /\ pc = "done" => RoundsRun = Len(demand)

C13_Witness == C13_Scenario /\ pc = "done" /\ Len(demand) = 2 /\ RoundsRun = 2

\* ------------------------------------------------------------------ C14
\* C14: when InOrder.do_work reads a queue entry that is no longer in the graph
\* or has an endpoint with availability 0, the step changes nothing but the
\* position in the queue: no acquire, no removal, no record, and the pass goes
\* on with the next entry.  While the queue is read no availability rises and
\* no edge at a disk without a free slot leaves the graph, so an edge skipped
\* for availability is still in the graph when the pass is over.
C14_SkippedLeaveNoTrace ==
  [][(pc = "commit" /\ qpos < Len(queue)) =>
       LET e == queue[qpos + 1]
       IN  /\ (avail[e[1]] = 0 \/ avail[e[2]] = 0 \/ ~HasEdge(graph, e[1], e[2])) =>
                /\ graph' = graph
                /\ avail' = avail
                /\ records' = records
                /\ working' = working
                /\ acquireOk' = acquireOk
                /\ qpos' = qpos + 1
                /\ pc' = "commit"
           /\ \A d \in DOMAIN cv :
                /\ avail'[d] <= avail[d]
                /\ avail[d] = 0 => Degree(graph', d) = Degree(graph, d)]_vars

\* after the first pass an edge is left (skipped for availability), and a pair
\* whose edges were all accepted had more queue entries than edges (stale ones)
C14_Witness ==
  /\ sched = "flatten_and_color"
  /\ pc = "free" /\ working = <<>> /\ rounds = 1
  /\ \E i \in DOMAIN queue : HasEdge(graph, queue[i][1], queue[i][2])
  /\ \E p \in Pairs :
       Mult(graph, p) = 0 /\ Mult(demand, p) >= 1 /\ Mult(queue, p) > Mult(demand, p)

\* ------------------------------------------------------------------ C15
\* the run is a Bipartite run on a connected demand graph whose disks all
\* started with an even capacity
C15_Scenario ==
  /\ sched = "bipartite"
  /\ \A d \in DOMAIN cv0 : cv0[d] % 2 = 0
  /\ ReachFrom(demand, Len(cv0), {1}) = DOMAIN cv0

\* C15: on a connected demand multigraph with even capacities a Bipartite run
\* ends with an empty graph: no exception is raised, every edge of the Euler
\* walk has an arc of its own in the flow network, every edge a select returns
\* is admitted by the commit of its round, a select on a graph that still has
\* edges returns some, and once the flow network is used up and the round is
\* committed the graph is empty.
C15_BipartiteTermination ==
  C15_Scenario =>
    /\ pc # "error"
    /\ (pc = "commit" /\ qpos = 0 /\ rounds = 1) => Len(b) + Len(queue) = Len(graph)
    /\ pc = "free" =>
          Len(queue) = BagSum({r \in BagToSet(records) : r[3] = rounds}, records)
    /\ (pc = "commit" /\ graph # <<>>) => queue # <<>>
    /\ (pc = "free" /\ b = <<>>) => graph = <<>>

\* ------------------------------------------------------------------ C16
\* C16: once the first select of a Bipartite run has relaxed the odd
\* capacities, every disk has an even capacity that is still positive and an
\* availability within [0, capacity], so the division by the capacity in max_d
\* is defined for every disk and normalize raises no exception for it.
C16_RelaxKeepsDeviceInvariant ==
  (sched = "bipartite" /\ pc # "start" /\ (pc = "select" => normalized)) =>
    \A d \in DOMAIN cv :
       /\ cv[d] % 2 = 0
       /\ cv[d] >= 1
       /\ 0 <= avail[d] /\ avail[d] <= cv[d]

\* ------------------------------------------------------------------ C17
\* the edges normalize added, behind the edges the graph had at entry
C17_Added == SubSeq(graph, Len(demand) + 1, Len(graph))

\* the pairing edges among them at disk d
C17_Pairings(d) ==
  Cardinality({i \in DOMAIN C17_Added :
                 C17_Added[i][1] # C17_Added[i][2] /\ Touches(C17_Added[i], d)})

\* the disks of odd degree at entry
C17_OddAtEntry == {d \in DOMAIN cv : Degree(demand, d) % 2 = 1}

\* C17: with even positive capacities normalize raises no exception, and after
\* it every disk d has degree exactly Delta' * cv(d), an even number, Delta'
\* being max_d of the graph at entry; the edges of the graph at entry are kept;
\* the disks that get a pairing edge are exactly those of odd degree, their
\* number is even, and each of them gets exactly one pairing edge.
C17_NormalizePostcondition ==
  (\A d \in DOMAIN cv : cv[d] >= 2) =>
    /\ pc # "error"
    /\ pc = "normalized" =>
         /\ \A d \in DOMAIN cv :
              /\ Degree(graph, d) = MaxD(demand, cv) * cv[d]
              /\ Degree(graph, d) % 2 = 0
              /\ C17_Pairings(d) = IF d \in C17_OddAtEntry THEN 1 ELSE 0
         /\ SubSeq(graph, 1, Len(demand)) = demand
         /\ Cardinality(C17_OddAtEntry) % 2 = 0
         /\ {Spares(demand, cv, MaxD(demand, cv))[i] :
               i \in DOMAIN Spares(demand, cv, MaxD(demand, cv))} = C17_OddAtEntry

\* two spares are paired, a third disk of capacity 4 is filled up with loops
C17_Witness ==
  /\ pc = "normalized"
  /\ Cardinality(C17_OddAtEntry) = 2
  /\ \E d \in DOMAIN cv :
       /\ cv[d] = 4
       /\ d \notin C17_OddAtEntry
       /\ Degree(graph, d) > Degree(demand, d)
  /\ \E d \in C17_OddAtEntry : Degree(graph, d) >= Degree(demand, d) + 3

\* ------------------------------------------------------------------ C18
\* C18: the colouring FlattenAndColor computes is a proper edge colouring of
\* its alias graph: every edge of the alias graph has exactly one colour, two
\* different edges that share an alias have different colours, and a colour is
\* the smallest free one (every smaller colour is on an edge at one of the two
\* endpoints).
C18_ProperColouring ==
  (sched = "flatten_and_color" /\ e_colors # <<>>) =>
    /\ \A i \in DOMAIN a_graph :
         Cardinality({e_colors[k][2] :
                        k \in {j \in DOMAIN e_colors :
                                 Same(e_colors[j][1], a_graph[i][1], a_graph[i][2])}}) = 1
    /\ \A k, l \in DOMAIN e_colors :
         LET e == e_colors[k][1]
             f == e_colors[l][1]
         IN  (~Same(e, f[1], f[2]) /\ (Touches(f, e[1]) \/ Touches(f, e[2])))
               => e_colors[k][2] # e_colors[l][2]
    /\ \A k \in DOMAIN e_colors :
         \A c \in 0..(e_colors[k][2] - 1) :
            \E l \in DOMAIN e_colors :
               /\ e_colors[l][2] = c
               /\ Touches(e_colors[l][1], e_colors[k][1][1])
                    \/ Touches(e_colors[l][1], e_colors[k][1][2])

\* ------------------------------------------------------------------ C19
\* the colours of the cached colouring
C19_Colours == {e_colors[k][2] : k \in DOMAIN e_colors}

\* the items of colour c, as pairs of disks
C19_Class(c) ==
  LET HasC(x) == x[2] = c
      items == SelectSeq(e_colors, HasC)
  IN  [k \in DOMAIN items |-> <<a_org[items[k][1][1]], a_org[items[k][1][2]]>>]

\* C19: the queue FlattenAndColor.gen_edges returns for a round is one colour
\* class of the cached colouring, its aliases replaced by their disks, and as
\* every class is returned in exactly one round, a run that has ended has run
\* as many rounds as the colouring has colours.
C19_OneClassPerRound ==
  sched = "flatten_and_color" =>
    /\ pc = "commit" => \E c \in C19_Colours : queue = C19_Class(c)
    /\ pc = "done" => RoundsRun = Cardinality(C19_Colours)

\* ------------------------------------------------------------------ C20
\* the disk behind a node of the graph mg_split has rewritten
C20_Org(x) == IF x <= Len(cv) THEN x ELSE a_org[x - Len(cv)]

\* the edges of the rewritten graph, every alias replaced by its disk
C20_Resolved == [i \in DOMAIN graph |-> <<C20_Org(graph[i][1]), C20_Org(graph[i][2])>>]

\* C20: after mg_split the graph has as many edges as before, as many edges
\* between every two disks (an alias counting as its disk) as before, and no
\* two of its nodes are joined by more than one edge.
C20_MgSplitFlattens ==
  pc = "split" =>
    /\ Len(graph) = Len(demand)
    /\ \A p \in Pairs : Mult(C20_Resolved, p) = Mult(demand, p)
    /\ \A i, j \in DOMAIN graph : i # j => ~Same(graph[i], graph[j][1], graph[j][2])

\* a triple edge: two aliases were made
C20_Witness ==
  /\ pc = "split"
  /\ Len(a_org) = 2
  /\ \E p \in Pairs : Mult(demand, p) = 3
  /\ graph # demand

=============================================================================
